---- MODULE Spec2Model ----
(***************************************************************************)
(* Model of the two FastMCP adapters of BQMCPServer:                       *)
(*   src/bqMCPServer.py              (BigQuery adapter)                    *)
(*   src/RedditMCPServer/RedditMCP.py (Reddit adapter)                     *)
(* A Python str is modelled as the sequence of its Unicode code points, so *)
(* that regular-expression substitution, upper-casing, stripping, slicing  *)
(* and prefix tests are computed character by character as the            *)
(* interpreter computes them, for every character a str can hold.          *)
(***************************************************************************)
EXTENDS Naturals, Sequences, FiniteSets

VARIABLES
  _bq_client,    \* module global: None or the identity of a bigquery.Client
  env,           \* credential environment seen by get_bigquery_client
  query,         \* the statement handed to query_bigquery
  result,        \* what the last BigQuery operation did and returned
  nConstructed,  \* history: bigquery.Client constructions that completed
  texts,         \* the free texts the Reddit API serves, in listing order
  reddit,        \* what the last Reddit operation did and returned
  pc,            \* concurrent dispatch: position of each caller
  seen,          \* concurrent dispatch: what each caller read at line 26
  built,         \* concurrent dispatch: the client each caller constructed
  got,           \* concurrent dispatch: the client each caller returned
  nWrites,       \* history: assignments made to _bq_client
  overlapped     \* history: two callers were inside get_bigquery_client at once

bqVars     == <<_bq_client, env, query, result, nConstructed>>
redditVars == <<texts, reddit>>
concVars   == <<pc, seen, built, got, nWrites, overlapped>>
vars       == <<_bq_client, env, query, result, nConstructed, texts, reddit,
                pc, seen, built, got, nWrites, overlapped>>

(***************************************************************************)
(* Bounds of the model.                                                    *)
(***************************************************************************)
MaxPieces  == 3   \* a statement is built from at most this many pieces
MaxPosts   == 1   \* items a Reddit listing yields
NumCallers == 2   \* callers dispatched concurrently

None == 0

(***************************************************************************)
(* Characters and strings.                                                 *)
(***************************************************************************)
\* the printable ASCII characters in code point order, 32 to 126; the grave
\* accent (96), which a string literal of this language cannot hold, is
\* spelled out
Printable ==
  <<" ", "!", "\"", "#", "$", "%", "&", "'", "(", ")", "*", "+", ",", "-",
    ".", "/", "0", "1", "2", "3", "4", "5", "6", "7", "8", "9", ":", ";",
    "<", "=", ">", "?", "@", "A", "B", "C", "D", "E", "F", "G", "H", "I",
    "J", "K", "L", "M", "N", "O", "P", "Q", "R", "S", "T", "U", "V", "W",
    "X", "Y", "Z", "[", "\\", "]", "^", "_", "backtick", "a", "b", "c", "d",
    "e", "f", "g", "h", "i", "j", "k", "l", "m", "n", "o", "p", "q", "r",
    "s", "t", "u", "v", "w", "x", "y", "z", "{", "|", "}", "~">>

\* ord(ch) of a printable ASCII character or a line feed
Ord(ch) ==
  IF ch = "\n" THEN 10
  ELSE 31 + CHOOSE i \in 1..Len(Printable) : Printable[i] = ch

\* the str whose characters are written out in t
Text(t) == [i \in 1..Len(t) |-> Ord(t[i])]

LowerLetters == 97..122
UpperLetters == 65..90
Digits       == 48..57
Underscore   == Ord("_")
Backtick     == Ord("backtick")

\* the code points regex \s matches in a str pattern, which are also those
\* str.strip() removes, as ranges <<first, last>>
SpaceRanges ==
  {<<9,13>>, <<28,32>>, <<133,133>>, <<160,160>>, <<5760,5760>>,
   <<8192,8202>>, <<8232,8233>>, <<8239,8239>>, <<8287,8287>>,
   <<12288,12288>>}

\* the code points above 127 that regex \w matches in a str pattern
\* (str.isalnum), as ranges <<first, last>>
WordRanges ==
  {<<170,170>>, <<178,179>>, <<181,181>>, <<185,186>>, <<188,190>>,
   <<192,214>>, <<216,246>>, <<248,705>>, <<710,721>>, <<736,740>>,
   <<748,748>>, <<750,750>>, <<880,884>>, <<886,887>>, <<890,893>>,
   <<895,895>>, <<902,902>>, <<904,906>>, <<908,908>>, <<910,929>>,
   <<931,1013>>, <<1015,1153>>, <<1162,1327>>, <<1329,1366>>, <<1369,1369>>,
   <<1376,1416>>, <<1488,1514>>, <<1519,1522>>, <<1568,1610>>, <<1632,1641>>,
   <<1646,1647>>, <<1649,1747>>, <<1749,1749>>, <<1765,1766>>, <<1774,1788>>,
   <<1791,1791>>, <<1808,1808>>, <<1810,1839>>, <<1869,1957>>, <<1969,1969>>,
   <<1984,2026>>, <<2036,2037>>, <<2042,2042>>, <<2048,2069>>, <<2074,2074>>,
   <<2084,2084>>, <<2088,2088>>, <<2112,2136>>, <<2144,2154>>, <<2160,2183>>,
   <<2185,2190>>, <<2208,2249>>, <<2308,2361>>, <<2365,2365>>, <<2384,2384>>,
   <<2392,2401>>, <<2406,2415>>, <<2417,2432>>, <<2437,2444>>, <<2447,2448>>,
   <<2451,2472>>, <<2474,2480>>, <<2482,2482>>, <<2486,2489>>, <<2493,2493>>,
   <<2510,2510>>, <<2524,2525>>, <<2527,2529>>, <<2534,2545>>, <<2548,2553>>,
   <<2556,2556>>, <<2565,2570>>, <<2575,2576>>, <<2579,2600>>, <<2602,2608>>,
   <<2610,2611>>, <<2613,2614>>, <<2616,2617>>, <<2649,2652>>, <<2654,2654>>,
   <<2662,2671>>, <<2674,2676>>, <<2693,2701>>, <<2703,2705>>, <<2707,2728>>,
   <<2730,2736>>, <<2738,2739>>, <<2741,2745>>, <<2749,2749>>, <<2768,2768>>,
   <<2784,2785>>, <<2790,2799>>, <<2809,2809>>, <<2821,2828>>, <<2831,2832>>,
   <<2835,2856>>, <<2858,2864>>, <<2866,2867>>, <<2869,2873>>, <<2877,2877>>,
   <<2908,2909>>, <<2911,2913>>, <<2918,2927>>, <<2929,2935>>, <<2947,2947>>,
   <<2949,2954>>, <<2958,2960>>, <<2962,2965>>, <<2969,2970>>, <<2972,2972>>,
   <<2974,2975>>, <<2979,2980>>, <<2984,2986>>, <<2990,3001>>, <<3024,3024>>,
   <<3046,3058>>, <<3077,3084>>, <<3086,3088>>, <<3090,3112>>, <<3114,3129>>,
   <<3133,3133>>, <<3160,3162>>, <<3165,3165>>, <<3168,3169>>, <<3174,3183>>,
   <<3192,3198>>, <<3200,3200>>, <<3205,3212>>, <<3214,3216>>, <<3218,3240>>,
   <<3242,3251>>, <<3253,3257>>, <<3261,3261>>, <<3293,3294>>, <<3296,3297>>,
   <<3302,3311>>, <<3313,3314>>, <<3332,3340>>, <<3342,3344>>, <<3346,3386>>,
   <<3389,3389>>, <<3406,3406>>, <<3412,3414>>, <<3416,3425>>, <<3430,3448>>,
   <<3450,3455>>, <<3461,3478>>, <<3482,3505>>, <<3507,3515>>, <<3517,3517>>,
   <<3520,3526>>, <<3558,3567>>, <<3585,3632>>, <<3634,3635>>, <<3648,3654>>,
   <<3664,3673>>, <<3713,3714>>, <<3716,3716>>, <<3718,3722>>, <<3724,3747>>,
   <<3749,3749>>, <<3751,3760>>, <<3762,3763>>, <<3773,3773>>, <<3776,3780>>,
   <<3782,3782>>, <<3792,3801>>, <<3804,3807>>, <<3840,3840>>, <<3872,3891>>,
   <<3904,3911>>, <<3913,3948>>, <<3976,3980>>, <<4096,4138>>, <<4159,4169>>,
   <<4176,4181>>, <<4186,4189>>, <<4193,4193>>, <<4197,4198>>, <<4206,4208>>,
   <<4213,4225>>, <<4238,4238>>, <<4240,4249>>, <<4256,4293>>, <<4295,4295>>,
   <<4301,4301>>, <<4304,4346>>, <<4348,4680>>, <<4682,4685>>, <<4688,4694>>,
   <<4696,4696>>, <<4698,4701>>, <<4704,4744>>, <<4746,4749>>, <<4752,4784>>,
   <<4786,4789>>, <<4792,4798>>, <<4800,4800>>, <<4802,4805>>, <<4808,4822>>,
   <<4824,4880>>, <<4882,4885>>, <<4888,4954>>, <<4969,4988>>, <<4992,5007>>,
   <<5024,5109>>, <<5112,5117>>, <<5121,5740>>, <<5743,5759>>, <<5761,5786>>,
   <<5792,5866>>, <<5870,5880>>, <<5888,5905>>, <<5919,5937>>, <<5952,5969>>,
   <<5984,5996>>, <<5998,6000>>, <<6016,6067>>, <<6103,6103>>, <<6108,6108>>,
   <<6112,6121>>, <<6128,6137>>, <<6160,6169>>, <<6176,6264>>, <<6272,6276>>,
   <<6279,6312>>, <<6314,6314>>, <<6320,6389>>, <<6400,6430>>, <<6470,6509>>,
   <<6512,6516>>, <<6528,6571>>, <<6576,6601>>, <<6608,6618>>, <<6656,6678>>,
   <<6688,6740>>, <<6784,6793>>, <<6800,6809>>, <<6823,6823>>, <<6917,6963>>,
   <<6981,6988>>, <<6992,7001>>, <<7043,7072>>, <<7086,7141>>, <<7168,7203>>,
   <<7232,7241>>, <<7245,7293>>, <<7296,7304>>, <<7312,7354>>, <<7357,7359>>,
   <<7401,7404>>, <<7406,7411>>, <<7413,7414>>, <<7418,7418>>, <<7424,7615>>,
   <<7680,7957>>, <<7960,7965>>, <<7968,8005>>, <<8008,8013>>, <<8016,8023>>,
   <<8025,8025>>, <<8027,8027>>, <<8029,8029>>, <<8031,8061>>, <<8064,8116>>,
   <<8118,8124>>, <<8126,8126>>, <<8130,8132>>, <<8134,8140>>, <<8144,8147>>,
   <<8150,8155>>, <<8160,8172>>, <<8178,8180>>, <<8182,8188>>, <<8304,8305>>,
   <<8308,8313>>, <<8319,8329>>, <<8336,8348>>, <<8450,8450>>, <<8455,8455>>,
   <<8458,8467>>, <<8469,8469>>, <<8473,8477>>, <<8484,8484>>, <<8486,8486>>,
   <<8488,8488>>, <<8490,8493>>, <<8495,8505>>, <<8508,8511>>, <<8517,8521>>,
   <<8526,8526>>, <<8528,8585>>, <<9312,9371>>, <<9450,9471>>,
   <<10102,10131>>, <<11264,11492>>, <<11499,11502>>, <<11506,11507>>,
   <<11517,11517>>, <<11520,11557>>, <<11559,11559>>, <<11565,11565>>,
   <<11568,11623>>, <<11631,11631>>, <<11648,11670>>, <<11680,11686>>,
   <<11688,11694>>, <<11696,11702>>, <<11704,11710>>, <<11712,11718>>,
   <<11720,11726>>, <<11728,11734>>, <<11736,11742>>, <<11823,11823>>,
   <<12293,12295>>, <<12321,12329>>, <<12337,12341>>, <<12344,12348>>,
   <<12353,12438>>, <<12445,12447>>, <<12449,12538>>, <<12540,12543>>,
   <<12549,12591>>, <<12593,12686>>, <<12690,12693>>, <<12704,12735>>,
   <<12784,12799>>, <<12832,12841>>, <<12872,12879>>, <<12881,12895>>,
   <<12928,12937>>, <<12977,12991>>, <<13312,19903>>, <<19968,42124>>,
   <<42192,42237>>, <<42240,42508>>, <<42512,42539>>, <<42560,42606>>,
   <<42623,42653>>, <<42656,42735>>, <<42775,42783>>, <<42786,42888>>,
   <<42891,42954>>, <<42960,42961>>, <<42963,42963>>, <<42965,42969>>,
   <<42994,43009>>, <<43011,43013>>, <<43015,43018>>, <<43020,43042>>,
   <<43056,43061>>, <<43072,43123>>, <<43138,43187>>, <<43216,43225>>,
   <<43250,43255>>, <<43259,43259>>, <<43261,43262>>, <<43264,43301>>,
   <<43312,43334>>, <<43360,43388>>, <<43396,43442>>, <<43471,43481>>,
   <<43488,43492>>, <<43494,43518>>, <<43520,43560>>, <<43584,43586>>,
   <<43588,43595>>, <<43600,43609>>, <<43616,43638>>, <<43642,43642>>,
   <<43646,43695>>, <<43697,43697>>, <<43701,43702>>, <<43705,43709>>,
   <<43712,43712>>, <<43714,43714>>, <<43739,43741>>, <<43744,43754>>,
   <<43762,43764>>, <<43777,43782>>, <<43785,43790>>, <<43793,43798>>,
   <<43808,43814>>, <<43816,43822>>, <<43824,43866>>, <<43868,43881>>,
   <<43888,44002>>, <<44016,44025>>, <<44032,55203>>, <<55216,55238>>,
   <<55243,55291>>, <<63744,64109>>, <<64112,64217>>, <<64256,64262>>,
   <<64275,64279>>, <<64285,64285>>, <<64287,64296>>, <<64298,64310>>,
   <<64312,64316>>, <<64318,64318>>, <<64320,64321>>, <<64323,64324>>,
   <<64326,64433>>, <<64467,64829>>, <<64848,64911>>, <<64914,64967>>,
   <<65008,65019>>, <<65136,65140>>, <<65142,65276>>, <<65296,65305>>,
   <<65313,65338>>, <<65345,65370>>, <<65382,65470>>, <<65474,65479>>,
   <<65482,65487>>, <<65490,65495>>, <<65498,65500>>, <<65536,65547>>,
   <<65549,65574>>, <<65576,65594>>, <<65596,65597>>, <<65599,65613>>,
   <<65616,65629>>, <<65664,65786>>, <<65799,65843>>, <<65856,65912>>,
   <<65930,65931>>, <<66176,66204>>, <<66208,66256>>, <<66273,66299>>,
   <<66304,66339>>, <<66349,66378>>, <<66384,66421>>, <<66432,66461>>,
   <<66464,66499>>, <<66504,66511>>, <<66513,66517>>, <<66560,66717>>,
   <<66720,66729>>, <<66736,66771>>, <<66776,66811>>, <<66816,66855>>,
   <<66864,66915>>, <<66928,66938>>, <<66940,66954>>, <<66956,66962>>,
   <<66964,66965>>, <<66967,66977>>, <<66979,66993>>, <<66995,67001>>,
   <<67003,67004>>, <<67072,67382>>, <<67392,67413>>, <<67424,67431>>,
   <<67456,67461>>, <<67463,67504>>, <<67506,67514>>, <<67584,67589>>,
   <<67592,67592>>, <<67594,67637>>, <<67639,67640>>, <<67644,67644>>,
   <<67647,67669>>, <<67672,67702>>, <<67705,67742>>, <<67751,67759>>,
   <<67808,67826>>, <<67828,67829>>, <<67835,67867>>, <<67872,67897>>,
   <<67968,68023>>, <<68028,68047>>, <<68050,68096>>, <<68112,68115>>,
   <<68117,68119>>, <<68121,68149>>, <<68160,68168>>, <<68192,68222>>,
   <<68224,68255>>, <<68288,68295>>, <<68297,68324>>, <<68331,68335>>,
   <<68352,68405>>, <<68416,68437>>, <<68440,68466>>, <<68472,68497>>,
   <<68521,68527>>, <<68608,68680>>, <<68736,68786>>, <<68800,68850>>,
   <<68858,68899>>, <<68912,68921>>, <<69216,69246>>, <<69248,69289>>,
   <<69296,69297>>, <<69376,69415>>, <<69424,69445>>, <<69457,69460>>,
   <<69488,69505>>, <<69552,69579>>, <<69600,69622>>, <<69635,69687>>,
   <<69714,69743>>, <<69745,69746>>, <<69749,69749>>, <<69763,69807>>,
   <<69840,69864>>, <<69872,69881>>, <<69891,69926>>, <<69942,69951>>,
   <<69956,69956>>, <<69959,69959>>, <<69968,70002>>, <<70006,70006>>,
   <<70019,70066>>, <<70081,70084>>, <<70096,70106>>, <<70108,70108>>,
   <<70113,70132>>, <<70144,70161>>, <<70163,70187>>, <<70272,70278>>,
   <<70280,70280>>, <<70282,70285>>, <<70287,70301>>, <<70303,70312>>,
   <<70320,70366>>, <<70384,70393>>, <<70405,70412>>, <<70415,70416>>,
   <<70419,70440>>, <<70442,70448>>, <<70450,70451>>, <<70453,70457>>,
   <<70461,70461>>, <<70480,70480>>, <<70493,70497>>, <<70656,70708>>,
   <<70727,70730>>, <<70736,70745>>, <<70751,70753>>, <<70784,70831>>,
   <<70852,70853>>, <<70855,70855>>, <<70864,70873>>, <<71040,71086>>,
   <<71128,71131>>, <<71168,71215>>, <<71236,71236>>, <<71248,71257>>,
   <<71296,71338>>, <<71352,71352>>, <<71360,71369>>, <<71424,71450>>,
   <<71472,71483>>, <<71488,71494>>, <<71680,71723>>, <<71840,71922>>,
   <<71935,71942>>, <<71945,71945>>, <<71948,71955>>, <<71957,71958>>,
   <<71960,71983>>, <<71999,71999>>, <<72001,72001>>, <<72016,72025>>,
   <<72096,72103>>, <<72106,72144>>, <<72161,72161>>, <<72163,72163>>,
   <<72192,72192>>, <<72203,72242>>, <<72250,72250>>, <<72272,72272>>,
   <<72284,72329>>, <<72349,72349>>, <<72368,72440>>, <<72704,72712>>,
   <<72714,72750>>, <<72768,72768>>, <<72784,72812>>, <<72818,72847>>,
   <<72960,72966>>, <<72968,72969>>, <<72971,73008>>, <<73030,73030>>,
   <<73040,73049>>, <<73056,73061>>, <<73063,73064>>, <<73066,73097>>,
   <<73112,73112>>, <<73120,73129>>, <<73440,73458>>, <<73648,73648>>,
   <<73664,73684>>, <<73728,74649>>, <<74752,74862>>, <<74880,75075>>,
   <<77712,77808>>, <<77824,78894>>, <<82944,83526>>, <<92160,92728>>,
   <<92736,92766>>, <<92768,92777>>, <<92784,92862>>, <<92864,92873>>,
   <<92880,92909>>, <<92928,92975>>, <<92992,92995>>, <<93008,93017>>,
   <<93019,93025>>, <<93027,93047>>, <<93053,93071>>, <<93760,93846>>,
   <<93952,94026>>, <<94032,94032>>, <<94099,94111>>, <<94176,94177>>,
   <<94179,94179>>, <<94208,100343>>, <<100352,101589>>, <<101632,101640>>,
   <<110576,110579>>, <<110581,110587>>, <<110589,110590>>, <<110592,110882>>,
   <<110928,110930>>, <<110948,110951>>, <<110960,111355>>, <<113664,113770>>,
   <<113776,113788>>, <<113792,113800>>, <<113808,113817>>, <<119520,119539>>,
   <<119648,119672>>, <<119808,119892>>, <<119894,119964>>, <<119966,119967>>,
   <<119970,119970>>, <<119973,119974>>, <<119977,119980>>, <<119982,119993>>,
   <<119995,119995>>, <<119997,120003>>, <<120005,120069>>, <<120071,120074>>,
   <<120077,120084>>, <<120086,120092>>, <<120094,120121>>, <<120123,120126>>,
   <<120128,120132>>, <<120134,120134>>, <<120138,120144>>, <<120146,120485>>,
   <<120488,120512>>, <<120514,120538>>, <<120540,120570>>, <<120572,120596>>,
   <<120598,120628>>, <<120630,120654>>, <<120656,120686>>, <<120688,120712>>,
   <<120714,120744>>, <<120746,120770>>, <<120772,120779>>, <<120782,120831>>,
   <<122624,122654>>, <<123136,123180>>, <<123191,123197>>, <<123200,123209>>,
   <<123214,123214>>, <<123536,123565>>, <<123584,123627>>, <<123632,123641>>,
   <<124896,124902>>, <<124904,124907>>, <<124909,124910>>, <<124912,124926>>,
   <<124928,125124>>, <<125127,125135>>, <<125184,125251>>, <<125259,125259>>,
   <<125264,125273>>, <<126065,126123>>, <<126125,126127>>, <<126129,126132>>,
   <<126209,126253>>, <<126255,126269>>, <<126464,126467>>, <<126469,126495>>,
   <<126497,126498>>, <<126500,126500>>, <<126503,126503>>, <<126505,126514>>,
   <<126516,126519>>, <<126521,126521>>, <<126523,126523>>, <<126530,126530>>,
   <<126535,126535>>, <<126537,126537>>, <<126539,126539>>, <<126541,126543>>,
   <<126545,126546>>, <<126548,126548>>, <<126551,126551>>, <<126553,126553>>,
   <<126555,126555>>, <<126557,126557>>, <<126559,126559>>, <<126561,126562>>,
   <<126564,126564>>, <<126567,126570>>, <<126572,126578>>, <<126580,126583>>,
   <<126585,126588>>, <<126590,126590>>, <<126592,126601>>, <<126603,126619>>,
   <<126625,126627>>, <<126629,126633>>, <<126635,126651>>, <<127232,127244>>,
   <<130032,130041>>, <<131072,173791>>, <<173824,177976>>, <<177984,178205>>,
   <<178208,183969>>, <<183984,191456>>, <<194560,195101>>, <<196608,201546>>}

\* str.upper() above 127, one character to one: <<first, last, step, to>>
\* maps first + k*step, up to last, to to + k*step
UpperRuns ==
  {<<181,181,1,924>>, <<224,246,1,192>>, <<248,254,1,216>>, <<255,255,1,376>>,
   <<257,303,2,256>>, <<305,305,1,73>>, <<307,311,2,306>>, <<314,328,2,313>>,
   <<331,375,2,330>>, <<378,382,2,377>>, <<383,383,1,83>>, <<384,384,1,579>>,
   <<387,389,2,386>>, <<392,392,1,391>>, <<396,396,1,395>>, <<402,402,1,401>>,
   <<405,405,1,502>>, <<409,409,1,408>>, <<410,410,1,573>>, <<414,414,1,544>>,
   <<417,421,2,416>>, <<424,424,1,423>>, <<429,429,1,428>>, <<432,432,1,431>>,
   <<436,438,2,435>>, <<441,441,1,440>>, <<445,445,1,444>>, <<447,447,1,503>>,
   <<453,453,1,452>>, <<454,454,1,452>>, <<456,456,1,455>>, <<457,457,1,455>>,
   <<459,459,1,458>>, <<460,460,1,458>>, <<462,476,2,461>>, <<477,477,1,398>>,
   <<479,495,2,478>>, <<498,498,1,497>>, <<499,499,1,497>>, <<501,501,1,500>>,
   <<505,543,2,504>>, <<547,563,2,546>>, <<572,572,1,571>>,
   <<575,576,1,11390>>, <<578,578,1,577>>, <<583,591,2,582>>,
   <<592,592,1,11375>>, <<593,593,1,11373>>, <<594,594,1,11376>>,
   <<595,595,1,385>>, <<596,596,1,390>>, <<598,599,1,393>>, <<601,601,1,399>>,
   <<603,603,1,400>>, <<604,604,1,42923>>, <<608,608,1,403>>,
   <<609,609,1,42924>>, <<611,611,1,404>>, <<613,613,1,42893>>,
   <<614,614,1,42922>>, <<616,616,1,407>>, <<617,617,1,406>>,
   <<618,618,1,42926>>, <<619,619,1,11362>>, <<620,620,1,42925>>,
   <<623,623,1,412>>, <<625,625,1,11374>>, <<626,626,1,413>>,
   <<629,629,1,415>>, <<637,637,1,11364>>, <<640,640,1,422>>,
   <<642,642,1,42949>>, <<643,643,1,425>>, <<647,647,1,42929>>,
   <<648,648,1,430>>, <<649,649,1,580>>, <<650,651,1,433>>, <<652,652,1,581>>,
   <<658,658,1,439>>, <<669,669,1,42930>>, <<670,670,1,42928>>,
   <<837,837,1,921>>, <<881,883,2,880>>, <<887,887,1,886>>,
   <<891,893,1,1021>>, <<940,940,1,902>>, <<941,943,1,904>>,
   <<945,961,1,913>>, <<962,962,1,931>>, <<963,971,1,931>>, <<972,972,1,908>>,
   <<973,974,1,910>>, <<976,976,1,914>>, <<977,977,1,920>>, <<981,981,1,934>>,
   <<982,982,1,928>>, <<983,983,1,975>>, <<985,1007,2,984>>,
   <<1008,1008,1,922>>, <<1009,1009,1,929>>, <<1010,1010,1,1017>>,
   <<1011,1011,1,895>>, <<1013,1013,1,917>>, <<1016,1016,1,1015>>,
   <<1019,1019,1,1018>>, <<1072,1103,1,1040>>, <<1104,1119,1,1024>>,
   <<1121,1153,2,1120>>, <<1163,1215,2,1162>>, <<1218,1230,2,1217>>,
   <<1231,1231,1,1216>>, <<1233,1327,2,1232>>, <<1377,1414,1,1329>>,
   <<4304,4346,1,7312>>, <<4349,4351,1,7357>>, <<5112,5117,1,5104>>,
   <<7296,7296,1,1042>>, <<7297,7297,1,1044>>, <<7298,7298,1,1054>>,
   <<7299,7300,1,1057>>, <<7301,7301,1,1058>>, <<7302,7302,1,1066>>,
   <<7303,7303,1,1122>>, <<7304,7304,1,42570>>, <<7545,7545,1,42877>>,
   <<7549,7549,1,11363>>, <<7566,7566,1,42950>>, <<7681,7829,2,7680>>,
   <<7835,7835,1,7776>>, <<7841,7935,2,7840>>, <<7936,7943,1,7944>>,
   <<7952,7957,1,7960>>, <<7968,7975,1,7976>>, <<7984,7991,1,7992>>,
   <<8000,8005,1,8008>>, <<8017,8023,2,8025>>, <<8032,8039,1,8040>>,
   <<8048,8049,1,8122>>, <<8050,8053,1,8136>>, <<8054,8055,1,8154>>,
   <<8056,8057,1,8184>>, <<8058,8059,1,8170>>, <<8060,8061,1,8186>>,
   <<8112,8113,1,8120>>, <<8126,8126,1,921>>, <<8144,8145,1,8152>>,
   <<8160,8161,1,8168>>, <<8165,8165,1,8172>>, <<8526,8526,1,8498>>,
   <<8560,8575,1,8544>>, <<8580,8580,1,8579>>, <<9424,9449,1,9398>>,
   <<11312,11359,1,11264>>, <<11361,11361,1,11360>>, <<11365,11365,1,570>>,
   <<11366,11366,1,574>>, <<11368,11372,2,11367>>, <<11379,11379,1,11378>>,
   <<11382,11382,1,11381>>, <<11393,11491,2,11392>>, <<11500,11502,2,11499>>,
   <<11507,11507,1,11506>>, <<11520,11557,1,4256>>, <<11559,11559,1,4295>>,
   <<11565,11565,1,4301>>, <<42561,42605,2,42560>>, <<42625,42651,2,42624>>,
   <<42787,42799,2,42786>>, <<42803,42863,2,42802>>, <<42874,42876,2,42873>>,
   <<42879,42887,2,42878>>, <<42892,42892,1,42891>>, <<42897,42899,2,42896>>,
   <<42900,42900,1,42948>>, <<42903,42921,2,42902>>, <<42933,42947,2,42932>>,
   <<42952,42954,2,42951>>, <<42961,42961,1,42960>>, <<42967,42969,2,42966>>,
   <<42998,42998,1,42997>>, <<43859,43859,1,42931>>, <<43888,43967,1,5024>>,
   <<65345,65370,1,65313>>, <<66600,66639,1,66560>>, <<66776,66811,1,66736>>,
   <<66967,66977,1,66928>>, <<66979,66993,1,66940>>, <<66995,67001,1,66956>>,
   <<67003,67004,1,66964>>, <<68800,68850,1,68736>>, <<71872,71903,1,71840>>,
   <<93792,93823,1,93760>>, <<125218,125251,1,125184>>}

\* str.upper() above 127, one character to several: <<c, c.upper()>>
UpperExpansions ==
  {<<223,<<83,83>>>>, <<329,<<700,78>>>>, <<496,<<74,780>>>>,
   <<912,<<921,776,769>>>>, <<944,<<933,776,769>>>>, <<1415,<<1333,1362>>>>,
   <<7830,<<72,817>>>>, <<7831,<<84,776>>>>, <<7832,<<87,778>>>>,
   <<7833,<<89,778>>>>, <<7834,<<65,702>>>>, <<8016,<<933,787>>>>,
   <<8018,<<933,787,768>>>>, <<8020,<<933,787,769>>>>,
   <<8022,<<933,787,834>>>>, <<8064,<<7944,921>>>>, <<8065,<<7945,921>>>>,
   <<8066,<<7946,921>>>>, <<8067,<<7947,921>>>>, <<8068,<<7948,921>>>>,
   <<8069,<<7949,921>>>>, <<8070,<<7950,921>>>>, <<8071,<<7951,921>>>>,
   <<8072,<<7944,921>>>>, <<8073,<<7945,921>>>>, <<8074,<<7946,921>>>>,
   <<8075,<<7947,921>>>>, <<8076,<<7948,921>>>>, <<8077,<<7949,921>>>>,
   <<8078,<<7950,921>>>>, <<8079,<<7951,921>>>>, <<8080,<<7976,921>>>>,
   <<8081,<<7977,921>>>>, <<8082,<<7978,921>>>>, <<8083,<<7979,921>>>>,
   <<8084,<<7980,921>>>>, <<8085,<<7981,921>>>>, <<8086,<<7982,921>>>>,
   <<8087,<<7983,921>>>>, <<8088,<<7976,921>>>>, <<8089,<<7977,921>>>>,
   <<8090,<<7978,921>>>>, <<8091,<<7979,921>>>>, <<8092,<<7980,921>>>>,
   <<8093,<<7981,921>>>>, <<8094,<<7982,921>>>>, <<8095,<<7983,921>>>>,
   <<8096,<<8040,921>>>>, <<8097,<<8041,921>>>>, <<8098,<<8042,921>>>>,
   <<8099,<<8043,921>>>>, <<8100,<<8044,921>>>>, <<8101,<<8045,921>>>>,
   <<8102,<<8046,921>>>>, <<8103,<<8047,921>>>>, <<8104,<<8040,921>>>>,
   <<8105,<<8041,921>>>>, <<8106,<<8042,921>>>>, <<8107,<<8043,921>>>>,
   <<8108,<<8044,921>>>>, <<8109,<<8045,921>>>>, <<8110,<<8046,921>>>>,
   <<8111,<<8047,921>>>>, <<8114,<<8122,921>>>>, <<8115,<<913,921>>>>,
   <<8116,<<902,921>>>>, <<8118,<<913,834>>>>, <<8119,<<913,834,921>>>>,
   <<8124,<<913,921>>>>, <<8130,<<8138,921>>>>, <<8131,<<919,921>>>>,
   <<8132,<<905,921>>>>, <<8134,<<919,834>>>>, <<8135,<<919,834,921>>>>,
   <<8140,<<919,921>>>>, <<8146,<<921,776,768>>>>, <<8147,<<921,776,769>>>>,
   <<8150,<<921,834>>>>, <<8151,<<921,776,834>>>>, <<8162,<<933,776,768>>>>,
   <<8163,<<933,776,769>>>>, <<8164,<<929,787>>>>, <<8166,<<933,834>>>>,
   <<8167,<<933,776,834>>>>, <<8178,<<8186,921>>>>, <<8179,<<937,921>>>>,
   <<8180,<<911,921>>>>, <<8182,<<937,834>>>>, <<8183,<<937,834,921>>>>,
   <<8188,<<937,921>>>>, <<64256,<<70,70>>>>, <<64257,<<70,73>>>>,
   <<64258,<<70,76>>>>, <<64259,<<70,70,73>>>>, <<64260,<<70,70,76>>>>,
   <<64261,<<83,84>>>>, <<64262,<<83,84>>>>, <<64275,<<1348,1350>>>>,
   <<64276,<<1348,1333>>>>, <<64277,<<1348,1339>>>>, <<64278,<<1358,1350>>>>,
   <<64279,<<1348,1341>>>>}

\* under re.IGNORECASE a letter of a pattern also matches these characters:
\* <<letter, character>> for I and U+0130, U+0131, S and U+017F, K and U+212A
IgnoreCaseExtra == {<<73,304>>, <<73,305>>, <<83,383>>, <<75,8490>>}

\* c lies in one of the ranges
InRanges(c, ranges) == \E r \in ranges : r[1] <= c /\ c <= r[2]

\* str.upper() of one character: a str of one or more characters
UpperChar(c) ==
  IF c \in LowerLetters THEN <<c - 32>>
  ELSE IF c < 128 THEN <<c>>
  ELSE LET ex  == {e \in UpperExpansions : e[1] = c}
           run == {r \in UpperRuns :
                     r[1] <= c /\ c <= r[2] /\ (c - r[1]) % r[3] = 0}
       IN IF ex # {} THEN (CHOOSE e \in ex : TRUE)[2]
          ELSE IF run # {}
               THEN LET r == CHOOSE r \in run : TRUE
                    IN <<r[4] + (c - r[1])>>
               ELSE <<c>>

\* regex \s in a str pattern; also the characters str.strip() removes
IsSpace(c) ==
  IF c < 128 THEN c \in 9..13 \/ c \in 28..32 ELSE InRanges(c, SpaceRanges)

\* the pattern character lit matches c under re.IGNORECASE
MatchesIgnoreCase(c, lit) ==
  LET l == IF lit \in LowerLetters THEN lit - 32 ELSE lit
  IN \/ c = lit
     \/ /\ l \in UpperLetters
        /\ c = l \/ c = l + 32 \/ <<l, c>> \in IgnoreCaseExtra

\* regex [a-zA-Z_] under re.IGNORECASE
IsIdentStart(c) ==
  \/ c \in LowerLetters
  \/ c \in UpperLetters
  \/ c = Underscore
  \/ \E x \in IgnoreCaseExtra : x[2] = c

\* regex [a-zA-Z0-9_] under re.IGNORECASE
IsIdentChar(c) == IsIdentStart(c) \/ c \in Digits

\* regex \w in a str pattern, which decides where \b holds
IsWordChar(c) ==
  IF c < 128
  THEN c \in LowerLetters \/ c \in UpperLetters \/ c \in Digits
         \/ c = Underscore
  ELSE InRanges(c, WordRanges)

RECURSIVE UpperRange(_, _, _)
\* s[a-1:b].upper(), the upper-cased characters joined in order
UpperRange(s, a, b) ==
  IF a > b THEN <<>>
  ELSE IF a = b THEN UpperChar(s[a])
  ELSE LET m == (a + b) \div 2
       IN UpperRange(s, a, m) \o UpperRange(s, m + 1, b)

\* str.upper()
UpperStr(s) ==
  IF \A i \in 1..Len(s) : s[i] < 128
  THEN [i \in 1..Len(s) |-> UpperChar(s[i])[1]]
  ELSE UpperRange(s, 1, Len(s))

\* s[i:i+len(lit)] == lit
LitAt(s, i, lit) ==
  /\ i >= 1
  /\ i + Len(lit) - 1 <= Len(s)
  /\ \A k \in 1..Len(lit) : s[i + k - 1] = lit[k]

\* the literal text lit of a pattern matches at position i under
\* re.IGNORECASE
LitAtIgnoreCase(s, i, lit) ==
  /\ i >= 1
  /\ i + Len(lit) - 1 <= Len(s)
  /\ \A k \in 1..Len(lit) : MatchesIgnoreCase(s[i + k - 1], lit[k])

\* sub in s
Contains(s, sub) == \E i \in 1..(Len(s) + 1) : LitAt(s, i, sub)

\* s.startswith(lit)
StartsWith(s, lit) == LitAt(s, 1, lit)

\* s.endswith(lit)
EndsWith(s, lit) == Len(lit) <= Len(s) /\ LitAt(s, Len(s) - Len(lit) + 1, lit)

RECURSIVE SkipSpaces(_, _)
\* first position at or after i that does not hold whitespace (greedy \s*)
SkipSpaces(s, i) ==
  IF i <= Len(s) /\ IsSpace(s[i]) THEN SkipSpaces(s, i + 1) ELSE i

RECURSIVE SkipIdent(_, _)
\* first position at or after i that does not hold [a-zA-Z0-9_]
SkipIdent(s, i) ==
  IF i <= Len(s) /\ IsIdentChar(s[i]) THEN SkipIdent(s, i + 1) ELSE i

RECURSIVE LastNonSpace(_, _)
\* last position at or before i that does not hold whitespace, 0 if none
LastNonSpace(s, i) ==
  IF i >= 1 /\ IsSpace(s[i]) THEN LastNonSpace(s, i - 1) ELSE i

\* str.strip()
Strip(s) ==
  LET a == SkipSpaces(s, 1)
      b == LastNonSpace(s, Len(s))
  IN IF a > b THEN <<>> ELSE SubSeq(s, a, b)

\* regex \b at the gap in front of position i
WordBoundary(s, i) ==
  LET before == i > 1 /\ i - 1 <= Len(s) /\ IsWordChar(s[i - 1])
      after  == i >= 1 /\ i <= Len(s) /\ IsWordChar(s[i])
  IN before # after

(***************************************************************************)
(* Configuration of the BigQuery adapter.                                  *)
(***************************************************************************)
PROJECT_ID ==
  Text(<<"[","I","n","s","e","r","t"," ","y","o","u","r"," ","p","r","o","j",
    "e","c","t"," ","I","D"," ","h","e","r","e","]">>)

DATASET_ID ==
  Text(<<"[","I","n","s","e","r","t"," ","y","o","u","r"," ","d","a","t","a",
    "s","e","t"," ","I","D"," ","h","e","r","e","]">>)

\* f"{PROJECT_ID}.{DATASET_ID}"
QualifiedPrefix == PROJECT_ID \o Text(<<".">>) \o DATASET_ID

\* the backtick-quoted PROJECT_ID.DATASET_ID.name of the replacement templates
QualifiedName(name) ==
  <<Backtick>> \o QualifiedPrefix \o Text(<<".">>) \o name \o <<Backtick>>

KwFrom   == Text(<<"F","R","O","M">>)
KwInto   == Text(<<"I","N","T","O">>)
KwUpdate == Text(<<"U","P","D","A","T","E">>)
KwTable  == Text(<<"T","A","B","L","E">>)
KwIf     == Text(<<"I","F">>)
KwExists == Text(<<"E","X","I","S","T","S">>)
KwSelect == Text(<<"S","E","L","E","C","T">>)
KwWith   == Text(<<"W","I","T","H">>)

(***************************************************************************)
(* query_bigquery: the table-reference rewrite (lines 96-106).             *)
(***************************************************************************)
NoMatch == [ok |-> FALSE, start |-> 0, end |-> 0]

\* a TABLE pattern without its lookahead
NoLookahead(s, p) == FALSE

\* the negative lookahead (?!IF\s+EXISTS) of the TABLE pattern, at position p:
\* TRUE when the text at p is IF, whitespace, EXISTS (so the pattern fails)
IfExistsAhead(s, p) ==
  /\ LitAtIgnoreCase(s, p, KwIf)
  /\ LET q == SkipSpaces(s, p + Len(KwIf))
     IN q > p + Len(KwIf) /\ LitAtIgnoreCase(s, q, KwExists)

\* the four (pattern, replacement) pairs, in list order
Patterns ==
  << [kw |-> KwFrom,   guarded |-> FALSE],
     [kw |-> KwInto,   guarded |-> FALSE],
     [kw |-> KwUpdate, guarded |-> FALSE],
     [kw |-> KwTable,  guarded |-> TRUE] >>

\* does \bKW\s+([a-zA-Z_][a-zA-Z0-9_]*)\b match with its first character at
\* position i?  Group 1 is s[start .. end-1].  \s+ and the identifier are
\* greedy; a shorter whitespace run leaves whitespace where the identifier
\* must start and a shorter identifier leaves no word boundary behind it, so
\* only the longest runs can match.
MatchAt(pat, s, i) ==
  LET a == i + Len(pat.kw)
      p == SkipSpaces(s, a)
      e == SkipIdent(s, p)
  IN IF /\ LitAtIgnoreCase(s, i, pat.kw)
        /\ WordBoundary(s, i)
        /\ p > a
        /\ ~(pat.guarded /\ IfExistsAhead(s, p))
        /\ p <= Len(s)
        /\ IsIdentStart(s[p])
        /\ WordBoundary(s, e)
     THEN [ok |-> TRUE, start |-> p, end |-> e]
     ELSE NoMatch

\* the replacement template expanded for one match
Replacement(pat, s, m) ==
  pat.kw \o Text(<<" ">>) \o QualifiedName(SubSeq(s, m.start, m.end - 1))

\* the leftmost position at or after i where the pattern matches, 0 if none
NextMatch(pat, s, i) ==
  LET at == {j \in i..Len(s) : MatchAt(pat, s, j).ok}
  IN IF at = {} THEN 0 ELSE CHOOSE j \in at : \A k \in at : j <= k

RECURSIVE ReSubFrom(_, _, _)
\* re.sub from position i on: leftmost matches, none overlapping; the text
\* between matches is copied
ReSubFrom(pat, s, i) ==
  LET j == NextMatch(pat, s, i)
  IN IF j = 0 THEN SubSeq(s, i, Len(s))
     ELSE LET m == MatchAt(pat, s, j)
          IN SubSeq(s, i, j - 1) \o Replacement(pat, s, m)
               \o ReSubFrom(pat, s, m.end)

\* re.sub(pattern, replacement, query, flags=re.IGNORECASE)
ReSub(pat, s) == ReSubFrom(pat, s, 1)

RECURSIVE ApplyPatterns(_, _)
\* for pattern, replacement in patterns: query = re.sub(...)
ApplyPatterns(s, k) ==
  IF k > Len(Patterns) THEN s ELSE ApplyPatterns(ReSub(Patterns[k], s), k + 1)

\* a guard that never finds the prefix
NeverQualified(q) == FALSE

\* the guard of line 97
AlreadyQualified(q) == Contains(q, QualifiedPrefix)

\* lines 96-106: the statement that is handed to client.query
RewriteQuery(q) == IF ~AlreadyQualified(q) THEN ApplyPatterns(q, 1) ELSE q

\* a classification that forgets upper() and strip()
IsReadStatementExact(q) == StartsWith(q, KwSelect) \/ StartsWith(q, KwWith)

\* lines 120-122: query.upper().strip().startswith(('SELECT', 'WITH'))
IsReadStatement(q) ==
  LET query_upper == Strip(UpperStr(q))
  IN StartsWith(query_upper, KwSelect) \/ StartsWith(query_upper, KwWith)

(***************************************************************************)
(* get_bigquery_client (lines 20-54).                                      *)
(***************************************************************************)
\* what the three authentication methods find when they look:
\*   pathExists  os.path.exists(service_account_path)
\*   fileLoads   Credentials.from_service_account_file(...) returns
\*   envVarSet   os.environ.get('GOOGLE_APPLICATION_CREDENTIALS') is truthy
\*   defaultOk   bigquery.Client(project=PROJECT_ID) returns
Envs ==
  [pathExists : BOOLEAN, fileLoads : BOOLEAN,
   envVarSet : BOOLEAN, defaultOk : BOOLEAN]

\* a get_bigquery_client that never finds the handle set
HandleNeverSet(h) == FALSE

\* line 26: _bq_client is not None
HandleIsSet(h) == h # None

\* lines 31, 40, 45: the one method the code runs
SelectStrategy(e) ==
  IF e.pathExists THEN 1 ELSE IF e.envVarSet THEN 2 ELSE 3

\* whether the selected method's calls return (lines 32-36, 41, 46)
StrategySucceeds(m, e) == IF m = 1 THEN e.fileLoads ELSE e.defaultOk

\* the exception that leaves get_bigquery_client: methods 1 and 2 have no
\* handler, method 3 re-raises as "No authentication found"
RaisedBy(m) == IF m = 3 THEN "no_authentication_found" ELSE "propagated"

\* a get_bigquery_client that forgets to assign the global
GetBigqueryClientUnmemoized(h, e, fresh) ==
  LET m == SelectStrategy(e)
  IN IF StrategySucceeds(m, e)
     THEN [raised |-> "no", client |-> fresh, handle |-> None,
           strategy |-> m, constructed |-> TRUE]
     ELSE [raised |-> RaisedBy(m), client |-> None, handle |-> None,
           strategy |-> m, constructed |-> FALSE]

\* get_bigquery_client() called with the global holding h; fresh is the
\* identity a newly constructed client would get.  strategy = 0: cached.
GetBigqueryClient(h, e, fresh) ==
  IF HandleIsSet(h)
  THEN [raised |-> "no", client |-> h, handle |-> h, strategy |-> 0,
        constructed |-> FALSE]
  ELSE LET m == SelectStrategy(e)
       IN IF StrategySucceeds(m, e)
          THEN [raised |-> "no", client |-> fresh, handle |-> fresh,
                strategy |-> m, constructed |-> TRUE]
          ELSE [raised |-> RaisedBy(m), client |-> None, handle |-> h,
                strategy |-> m, constructed |-> FALSE]

(***************************************************************************)
(* The four BigQuery operations, dispatched one at a time.                 *)
(***************************************************************************)
NoResponse ==
  [status |-> "none", head |-> "", rowCount |-> FALSE, schema |-> FALSE,
   affected |-> FALSE]

ErrorResponse(head) ==
  [status |-> "error", head |-> head, rowCount |-> FALSE, schema |-> FALSE,
   affected |-> FALSE]

OkResponse(head) ==
  [status |-> "ok", head |-> head, rowCount |-> FALSE, schema |-> FALSE,
   affected |-> FALSE]

NoResult ==
  [op |-> "none", raised |-> "no", strategy |-> 0, client |-> None,
   env |-> [pathExists |-> FALSE, fileLoads |-> FALSE, envVarSet |-> FALSE,
            defaultOk |-> FALSE],
   wasSet |-> FALSE, sent |-> FALSE, submitted |-> <<>>,
   response |-> NoResponse]

\* lines 108-143: the response of query_bigquery;
\* read: the submitted statement passes the test of line 122;
\* execFault: client.query, result() or the formatting raises;
\* dml: query_job.num_dml_affected_rows is truthy
QueryResponse(read, execFault, dml) ==
  IF execFault THEN ErrorResponse("Query failed: ")
  ELSE IF read
       THEN [status |-> "ok", head |-> "Query executed successfully. Found",
             rowCount |-> TRUE, schema |-> TRUE, affected |-> FALSE]
       ELSE [status |-> "ok", head |-> "Query executed successfully.",
             rowCount |-> FALSE, schema |-> FALSE, affected |-> dml]

\* one operation: the client is acquired outside the try block, so an
\* exception of get_bigquery_client leaves the operation
Operation(op, acq, sent, submitted, response) ==
  /\ _bq_client' = acq.handle
  /\ nConstructed' = nConstructed + (IF acq.constructed THEN 1 ELSE 0)
  /\ result' = [op |-> op, raised |-> acq.raised, strategy |-> acq.strategy,
                client |-> acq.client, env |-> env,
                wasSet |-> (_bq_client # None),
                sent |-> (acq.raised = "no" /\ sent),
                submitted |-> IF acq.raised = "no" THEN submitted ELSE <<>>,
                response |-> IF acq.raised = "no" THEN response
                             ELSE NoResponse]
  /\ UNCHANGED <<env, query, redditVars, concVars>>

\* query_bigquery(query), lines 84-143
QueryBigquery ==
  \E acq \in {GetBigqueryClient(_bq_client, env, nConstructed + 1)},
     sub \in {RewriteQuery(query)} :
    \E read \in {IsReadStatement(sub)}, execFault \in BOOLEAN, dml \in BOOLEAN :
      Operation("query_bigquery", acq, TRUE, sub,
                QueryResponse(read, execFault, dml))

\* get_table_schema(table_name), lines 146-188
GetTableSchema ==
  \E fault \in BOOLEAN :
    LET acq == GetBigqueryClient(_bq_client, env, nConstructed + 1)
    IN Operation("get_table_schema", acq, FALSE, <<>>,
                 IF fault THEN ErrorResponse("Error getting table schema: ")
                 ELSE OkResponse("Schema for table"))

\* list_tables(), lines 191-218
ListTables ==
  \E fault \in BOOLEAN :
    LET acq == GetBigqueryClient(_bq_client, env, nConstructed + 1)
    IN Operation("list_tables", acq, FALSE, <<>>,
                 IF fault THEN ErrorResponse("Error listing tables: ")
                 ELSE OkResponse("Tables in dataset"))

\* n spaces of indentation
Spaces(n) == [i \in 1..n |-> Ord(" ")]

\* lines 242-247: the statement get_dataset_info hands to client.query
StatsQuery ==
  Text(<<"\n">>)
    \o Spaces(8) \o Text(<<"S","E","L","E","C","T"," ","\n">>)
    \o Spaces(12)
    \o Text(<<"C","O","U","N","T","(","*",")"," ","a","s"," ",
              "t","a","b","l","e","_","c","o","u","n","t",",","\n">>)
    \o Spaces(12)
    \o Text(<<"S","U","M","(","s","i","z","e","_","b","y","t","e","s",")",
              " ","/"," ","P","O","W","(","1","0",","," ","9",")"," ",
              "a","s"," ","t","o","t","a","l","_","s","i","z","e","_",
              "g","b","\n">>)
    \o Spaces(8) \o Text(<<"F","R","O","M"," ">>)
    \o QualifiedName(Text(<<"_","_","T","A","B","L","E","S","_","_">>))
    \o Text(<<"\n">>) \o Spaces(8)

\* get_dataset_info(), lines 221-261.  fault names what raises, if anything:
\* "metadata" is client.dataset or client.get_dataset (lines 231-232), before
\* any statement is sent; "query" is client.query, result() or the formatting
\* that follows (lines 249-256), after the statement was handed over
GetDatasetInfo ==
  \E fault \in {"none", "metadata", "query"} :
    LET acq == GetBigqueryClient(_bq_client, env, nConstructed + 1)
    IN Operation("get_dataset_info", acq, fault # "metadata",
                 IF fault = "metadata" THEN <<>> ELSE StatsQuery,
                 IF fault = "none" THEN OkResponse("Dataset Information for")
                 ELSE ErrorResponse("Error getting dataset info: "))

\* the world outside the process: the credential file, the environment
\* variable and the ambient credentials come and go
EnvChange ==
  /\ \E e \in Envs : e # env /\ env' = e
  /\ UNCHANGED <<_bq_client, query, result, nConstructed, redditVars,
                 concVars>>

(***************************************************************************)
(* The Reddit adapter (src/RedditMCPServer/RedditMCP.py).                  *)
(***************************************************************************)
Ellipsis == Text(<<".", ".", ".">>)

SelftextLimit    == 500   \* get_subreddit_posts, line 79
CommentLimit     == 300   \* get_post_details, line 145
SearchLimit      == 200   \* search_reddit, line 197
DescriptionLimit == 500   \* get_subreddit_info, line 230

\* a truncation that cuts at the limit but also when the text just fits
TruncateEager(text, limit) ==
  IF Len(text) >= limit THEN SubSeq(text, 1, limit) \o Ellipsis ELSE text

\* text[:limit] + "..." if len(text) > limit else text
Truncate(text, limit) ==
  IF Len(text) > limit THEN SubSeq(text, 1, limit) \o Ellipsis ELSE text

\* one truncated field of a response: source text, limit, text put out
Field(text, limit) ==
  [source |-> text, limit |-> limit, output |-> Truncate(text, limit)]

NoRedditResult ==
  [op |-> "none", sort_type |-> "", isError |-> FALSE, error |-> "",
   raised |-> FALSE, calls |-> <<>>, fields |-> <<>>]

\* the error document of an except clause or of the sort_type check
RedditError(op, sort_type, calls, message) ==
  [op |-> op, sort_type |-> sort_type, isError |-> TRUE, error |-> message,
   raised |-> FALSE, calls |-> calls, fields |-> <<>>]

\* the document of a call that ran to its return statement
RedditOk(op, sort_type, calls, fields) ==
  [op |-> op, sort_type |-> sort_type, isError |-> FALSE, error |-> "",
   raised |-> FALSE, calls |-> calls, fields |-> fields]

ValidSortTypes == {"hot", "new", "top", "rising"}
SortTypes      == ValidSortTypes \cup {"best", "HOT"}

RedditStep(r) ==
  /\ reddit' = r
  /\ UNCHANGED <<texts, bqVars, concVars>>

\* get_subreddit_posts(subreddit_name, sort_type, limit, time_filter),
\* lines 32-97.  fault names the client call that raises, if any.  The
\* client is constructed and the subreddit looked up (lines 51-52) before
\* sort_type is examined (lines 55-64).
GetSubredditPosts ==
  \E sort_type \in SortTypes,
     fault \in {"none", "Reddit", "subreddit", "listing"} :
    LET op == "get_subreddit_posts"
    IN RedditStep(
         IF fault = "Reddit"
         THEN RedditError(op, sort_type, <<"Reddit">>,
                          "Failed to fetch posts: ")
         ELSE IF fault = "subreddit"
         THEN RedditError(op, sort_type, <<"Reddit", "subreddit">>,
                          "Failed to fetch posts: ")
         ELSE IF sort_type \notin ValidSortTypes
         THEN RedditError(op, sort_type, <<"Reddit", "subreddit">>,
                          "Invalid sort_type. Use 'hot', 'new', 'top', or 'rising'")
         ELSE IF fault = "listing"
         THEN RedditError(op, sort_type, <<"Reddit", "subreddit", sort_type>>,
                          "Failed to fetch posts: ")
         ELSE RedditOk(op, sort_type, <<"Reddit", "subreddit", sort_type>>,
                       [i \in 1..Len(texts) |->
                          Field(texts[i], SelftextLimit)]))

\* get_post_details(post_id, include_comments, comment_limit), lines 100-159;
\* texts are the bodies of the top-level comments
GetPostDetails ==
  \E include_comments \in BOOLEAN, comment_limit \in 0..MaxPosts,
     fault \in {"none", "Reddit", "submission", "comments"} :
    LET op == "get_post_details"
        shown == IF comment_limit < Len(texts) THEN comment_limit
                 ELSE Len(texts)
    IN RedditStep(
         IF fault = "Reddit"
         THEN RedditError(op, "", <<"Reddit">>,
                          "Failed to fetch post details: ")
         ELSE IF fault = "submission"
         THEN RedditError(op, "", <<"Reddit", "submission">>,
                          "Failed to fetch post details: ")
         ELSE IF ~include_comments
         THEN RedditOk(op, "", <<"Reddit", "submission">>, <<>>)
         ELSE IF fault = "comments"
         THEN RedditError(op, "", <<"Reddit", "submission", "replace_more">>,
                          "Failed to fetch post details: ")
         ELSE RedditOk(op, "", <<"Reddit", "submission", "replace_more">>,
                       [i \in 1..shown |-> Field(texts[i], CommentLimit)]))

\* search_reddit(query, sort, time_filter, limit), lines 162-210
SearchReddit ==
  \E fault \in {"none", "Reddit", "search"} :
    LET op == "search_reddit"
    IN RedditStep(
         IF fault = "Reddit"
         THEN RedditError(op, "", <<"Reddit">>, "Search failed: ")
         ELSE IF fault = "search"
         THEN RedditError(op, "", <<"Reddit", "subreddit", "search">>,
                          "Search failed: ")
         ELSE RedditOk(op, "", <<"Reddit", "subreddit", "search">>,
                       [i \in 1..Len(texts) |->
                          Field(texts[i], SearchLimit)]))

\* get_subreddit_info(subreddit_name), lines 213-244; the description is the
\* first text served, or empty
GetSubredditInfo ==
  \E fault \in {"none", "Reddit", "subreddit"} :
    LET op == "get_subreddit_info"
        description == IF texts = <<>> THEN <<>> ELSE texts[1]
    IN RedditStep(
         IF fault = "Reddit"
         THEN RedditError(op, "", <<"Reddit">>,
                          "Failed to fetch subreddit info: ")
         ELSE IF fault = "subreddit"
         THEN RedditError(op, "", <<"Reddit", "subreddit">>,
                          "Failed to fetch subreddit info: ")
         ELSE RedditOk(op, "", <<"Reddit", "subreddit">>,
                       <<Field(description, DescriptionLimit)>>))

\* texts of n filler characters followed by a tail
Filler(n) == [i \in 1..n |-> Ord("a")]

Tails == {<<>>, Ellipsis, Text(<<"b">>)}

Limits == {SelftextLimit, CommentLimit, SearchLimit, DescriptionLimit}

\* lengths at, just under and just over each limit
TextLengths == {0} \cup UNION {{l - 1, l, l + 1} : l \in Limits}

FreeTexts == {Filler(n) \o t : n \in TextLengths, t \in Tails}

RECURSIVE FeedsOf(_)
FeedsOf(n) ==
  IF n = 0 THEN {<<>>}
  ELSE {<<t>> \o f : t \in FreeTexts, f \in FeedsOf(n - 1)}

Feeds == UNION {FeedsOf(n) : n \in 0..MaxPosts}

(***************************************************************************)
(* Statements handed to query_bigquery: concatenations of pieces.  Four    *)
(* pieces hold a character outside ASCII, one for each way the rewrite and *)
(* the classification treat such characters.                               *)
(***************************************************************************)
PcSelect      == Text(<<"S","E","L","E","C","T"," ","*"," ">>)
\* w, U+0131 (dotless i), th: upper-cased it reads WITH
PcWith        == Text(<<"w">>) \o <<305>> \o Text(<<"t","h"," ">>)
PcDropTable   == Text(<<"D","R","O","P"," ","T","A","B","L","E"," ">>)
PcFrom        == Text(<<"F","R","O","M"," ">>)
PcFromLower   == Text(<<"f","r","o","m","\n"," ">>)
\* U+0130 (capital I with dot above), nto: matched by INTO under IGNORECASE
PcInto        == <<304>> \o Text(<<"n","t","o"," ">>)
PcUpdate      == Text(<<"U","P","D","A","T","E"," ">>)
PcIfExists    == Text(<<"I","F"," ","E","X","I","S","T","S"," ">>)
\* U+00E9 (e with acute accent), a word character that no identifier holds
PcAccent      == <<233>>
PcOrders      == Text(<<"o","r","d","e","r","s">>)
PcColumn      == Text(<<"x","_">>)
\* U+00A0 (no-break space), whitespace to \s and to strip()
PcSpace       == <<160>>
PcQualified   == QualifiedName(Text(<<"t">>)) \o Text(<<" ">>)

Pieces ==
  {PcSelect, PcWith, PcDropTable, PcFrom, PcFromLower, PcInto, PcUpdate,
   PcIfExists, PcAccent, PcOrders, PcColumn, PcSpace, PcQualified}

RECURSIVE StatementsOf(_)
StatementsOf(n) ==
  IF n = 0 THEN {<<>>}
  ELSE {p \o s : p \in Pieces, s \in StatementsOf(n - 1)}

Statements == UNION {StatementsOf(n) : n \in 0..MaxPieces}

\* SELECT * FROM orders, DROP TABLE IF EXISTS orders, and the lower-case
\* with orders whose i is dotless
CoreStatements ==
  {PcSelect \o PcFrom \o PcOrders,
   PcDropTable \o PcIfExists \o PcOrders,
   PcWith \o PcOrders}

RedditIdle ==
  /\ texts = <<>>
  /\ reddit = NoRedditResult

ConcIdle ==
  /\ pc = [c \in 1..NumCallers |-> "idle"]
  /\ seen = [c \in 1..NumCallers |-> None]
  /\ built = [c \in 1..NumCallers |-> None]
  /\ got = [c \in 1..NumCallers |-> None]
  /\ nWrites = 0
  /\ overlapped = FALSE

BqIdle ==
  /\ _bq_client = None
  /\ result = NoResult
  /\ nConstructed = 0

(***************************************************************************)
(* Spec: the BigQuery adapter under sequential dispatch.                   *)
(***************************************************************************)
Init ==
  /\ BqIdle
  /\ env \in Envs
  /\ query \in CoreStatements
  /\ RedditIdle
  /\ ConcIdle

Next ==
  \/ QueryBigquery
  \/ GetTableSchema
  \/ ListTables
  \/ GetDatasetInfo
  \/ EnvChange

Spec == Init /\ [][Next]_vars

(***************************************************************************)
(* QuerySpec: query_bigquery over every statement of Statements, with the  *)
(* credential variable set and usable.                                     *)
(***************************************************************************)
QueryInit ==
  /\ BqIdle
  /\ env = [pathExists |-> FALSE, fileLoads |-> FALSE, envVarSet |-> TRUE,
            defaultOk |-> TRUE]
  /\ query \in Statements
  /\ RedditIdle
  /\ ConcIdle

QueryNext == QueryBigquery

QuerySpec == QueryInit /\ [][QueryNext]_vars

(***************************************************************************)
(* Properties of the BigQuery adapter.                                     *)
(***************************************************************************)
\* a method is available when running it would yield a client
MethodAvailable(m, e) ==
  IF m = 1 THEN e.pathExists /\ e.fileLoads
  ELSE IF m = 2 THEN e.envVarSet /\ e.defaultOk
  ELSE e.defaultOk

AvailableMethods(e) == {m \in 1..3 : MethodAvailable(m, e)}

BqOps == {"query_bigquery", "get_table_schema", "list_tables",
          "get_dataset_info"}

ErrorHeads == {"Query failed: ", "Error getting table schema: ",
               "Error listing tables: ", "Error getting dataset info: "}

\* C1: every fault of a BigQuery operation comes back as an error-prefixed
\* string; an operation raises only when client acquisition found all three
\* credential methods failing.
C1_OnlyTotalAuthFailureRaises ==
  result.op \in BqOps =>
    /\ result.raised # "no" => AvailableMethods(result.env) = {}
    /\ result.raised = "no" /\ result.response.status = "error"
         => result.response.head \in ErrorHeads

\* C2: under sequential dispatch the handle, once set, is never reassigned,
\* no authentication method runs again, every later call gets the cached
\* client, and exactly one client has been constructed.
C2_Memoized ==
  /\ [](nConstructed <= 1 /\ (_bq_client # None <=> nConstructed = 1))
  /\ [][_bq_client # None =>
          /\ _bq_client' = _bq_client
          /\ nConstructed' = nConstructed
          /\ (result' # result =>
                /\ result'.raised = "no"
                /\ result'.strategy = 0
                /\ result'.client = _bq_client)]_vars

\* C2 witness: a second operation was served from the cache
C2_Witness ==
  /\ result.op \in BqOps
  /\ result.wasSet
  /\ result.strategy = 0
  /\ result.client = _bq_client
  /\ nConstructed = 1

\* C3: with the handle unset, the first method in the order file, variable,
\* default that is available provides the client, and acquisition fails only
\* when none of the three is available.
C3_FirstAvailableWins ==
  (result.op \in BqOps /\ ~result.wasSet) =>
    LET avail == AvailableMethods(result.env)
    IN IF avail = {} THEN result.raised # "no"
       ELSE /\ result.raised = "no"
            /\ result.strategy \in avail
            /\ \A m \in avail : result.strategy <= m

\* the statement text as supplied, leading whitespace aside, begins in upper
\* case with SELECT or WITH
LeadsAsRead(q) ==
  LET a    == SkipSpaces(q, 1)
      z    == IF a + Len(KwSelect) - 1 < Len(q) THEN a + Len(KwSelect) - 1
              ELSE Len(q)
      lead == UpperRange(q, a, z)
  IN StartsWith(lead, KwSelect) \/ StartsWith(lead, KwWith)

\* C7: a statement that already contains the qualified prefix is submitted
\* character for character as supplied.
C7_QualifiedUntouched ==
  (result.op = "query_bigquery" /\ result.sent
     /\ Contains(query, QualifiedPrefix))
    => result.submitted = query

\* C7 witness: a submitted statement holding the prefix and also a bare
\* table reference the rewrite would otherwise have changed
C7_Witness ==
  /\ result.op = "query_bigquery"
  /\ result.sent
  /\ Contains(query, QualifiedPrefix)
  /\ \E k \in 1..Len(Patterns) : NextMatch(Patterns[k], query, 1) # 0
  /\ result.submitted = query

\* C8 as stated: a read statement always reports a row count and a schema
\* listing, a non-read statement never a schema listing.
C8_ShapeByLeadingKeyword ==
  result.op = "query_bigquery" =>
    /\ LeadsAsRead(query)
         => result.response.rowCount /\ result.response.schema
    /\ ~LeadsAsRead(query) => ~result.response.schema

\* C8 amended: when the statement executes without a fault, a read statement
\* reports a row count and a schema listing and a non-read statement reports
\* neither; when execution faults the response is the failure string, with
\* neither, whatever the leading keyword.
C8_ShapeWhenExecuted ==
  result.op = "query_bigquery" /\ result.sent =>
    /\ result.response.status \in {"ok", "error"}
    /\ result.response.status = "ok" =>
         /\ LeadsAsRead(query)
              => result.response.rowCount /\ result.response.schema
         /\ ~LeadsAsRead(query)
              => ~result.response.rowCount /\ ~result.response.schema
    /\ result.response.status = "error" =>
         /\ result.response.head = "Query failed: "
         /\ ~result.response.rowCount /\ ~result.response.schema

\* C8 witness: a lower-case or indented read statement, rewritten, executed
\* and answered with row count and schema
C8_Witness ==
  /\ result.op = "query_bigquery"
  /\ result.response.status = "ok"
  /\ result.response.schema
  /\ result.submitted # query
  /\ ~StartsWith(query, KwSelect)

(***************************************************************************)
(* Properties of the rewrite, stated on the text the caller supplied and   *)
(* the text that was submitted.                                            *)
(***************************************************************************)
RewriteKeywords == {KwFrom, KwInto, KwUpdate, KwTable}

\* position p starts a bare identifier: a whole word of identifier
\* characters that stands after whitespace
BareIdentAt(s, p) ==
  /\ p > 1 /\ p <= Len(s) /\ IsIdentStart(s[p]) /\ IsSpace(s[p - 1])
  /\ LET e == SkipIdent(s, p) IN e > Len(s) \/ ~IsWordChar(s[e])

\* the bare identifier that starts at p
BareName(s, p) == SubSeq(s, p, SkipIdent(s, p) - 1)

\* where the word kw starts when it is the word right before the whitespace
\* in front of p; 0 when another word stands there
KeywordStartBefore(s, p, kw) ==
  LET b == LastNonSpace(s, p - 1)
      k == b - Len(kw) + 1
  IN IF k >= 1 /\ LitAtIgnoreCase(s, k, kw)
          /\ (k = 1 \/ ~IsWordChar(s[k - 1]))
     THEN k ELSE 0

\* the phrase IF EXISTS starts at p
IfExistsPhraseAt(s, p) ==
  /\ LitAtIgnoreCase(s, p, KwIf)
  /\ p + 2 <= Len(s)
  /\ IsSpace(s[p + 2])
  /\ LitAtIgnoreCase(s, SkipSpaces(s, p + 2), KwExists)

\* the keywords the bare identifier at p follows, IF EXISTS after TABLE left out
Governing(s, p) ==
  {kw \in RewriteKeywords :
     /\ BareIdentAt(s, p)
     /\ KeywordStartBefore(s, p, kw) # 0
     /\ ~(kw = KwTable /\ IfExistsPhraseAt(s, p))}

\* the identifier at p is not one of the four keywords, and it follows a
\* keyword that is not itself the identifier following another keyword
FreelyGoverned(s, p) ==
  /\ \E kw \in Governing(s, p) :
       Governing(s, KeywordStartBefore(s, p, kw)) = {}
  /\ ~\E kw \in RewriteKeywords :
        /\ Len(BareName(s, p)) = Len(kw)
        /\ LitAtIgnoreCase(BareName(s, p), 1, kw)

\* the text TABLE, qualified IF, whitespace, EXISTS occurs in out
IfExistsRewritten(out) ==
  LET lead == KwTable \o <<Ord(" "), Backtick>> \o QualifiedPrefix
                \o Text(<<".">>)
  IN \E i \in 1..Len(out) :
       /\ LitAt(out, i, lead)
       /\ LET p == i + Len(lead)
              q == SkipSpaces(out, p + 3)
          IN /\ LitAtIgnoreCase(out, p, KwIf)
             /\ LitAt(out, p + 2, <<Backtick>>)
             /\ q > p + 3
             /\ LitAtIgnoreCase(out, q, KwExists)

Rewritable ==
  /\ result.op = "query_bigquery"
  /\ result.sent
  /\ ~Contains(query, QualifiedPrefix)

\* C5 as stated: in a statement without the qualified prefix every bare
\* identifier that follows FROM, INTO, UPDATE or TABLE is replaced by its
\* backtick-quoted qualified name, and IF EXISTS after TABLE is not rewritten.
C5_EveryReferenceRewritten ==
  Rewritable =>
    /\ \A p \in 1..Len(query) :
         Governing(query, p) # {}
           => Contains(result.submitted, QualifiedName(BareName(query, p)))
    /\ ~IfExistsRewritten(result.submitted)

\* C5 amended: the same for every bare identifier that is not itself one of
\* the four keywords and whose keyword is not itself the identifier that
\* follows another of the four keywords.
C5_FreeReferencesRewritten ==
  Rewritable =>
    /\ \A p \in 1..Len(query) :
         FreelyGoverned(query, p)
           => Contains(result.submitted, QualifiedName(BareName(query, p)))
    /\ ~IfExistsRewritten(result.submitted)

\* C5 witness: a statement with TABLE IF EXISTS left as written next to a
\* reference that was rewritten
C5_Witness ==
  /\ Rewritable
  /\ \E p \in 1..Len(query) : FreelyGoverned(query, p)
  /\ \E p \in 1..Len(query) :
       /\ BareIdentAt(query, p)
       /\ KeywordStartBefore(query, p, KwTable) # 0
       /\ IfExistsPhraseAt(query, p)
  /\ Contains(result.submitted, KwTable \o Text(<<" ">>) \o PcIfExists)
  /\ result.submitted # query

\* the one table of the single-table statements
TableName == PcOrders

\* SELECT * FROM orders, SELECT * from orders, DROP TABLE orders,
\* DROP TABLE IF EXISTS orders
SingleTableStatements ==
  {PcSelect \o PcFrom \o TableName,
   PcSelect \o PcFromLower \o TableName,
   PcDropTable \o TableName,
   PcDropTable \o PcIfExists \o TableName}

\* the statement with its table name, which ends it, qualified
WithTableQualified(q) ==
  SubSeq(q, 1, Len(q) - Len(TableName)) \o QualifiedName(TableName)

\* the characters of s that are not whitespace, in upper case
Squeeze(s) ==
  LET keep == {i \in 1..Len(s) : ~IsSpace(s[i])}
  IN UpperStr([k \in 1..Cardinality(keep) |->
                 s[CHOOSE i \in keep :
                     Cardinality({j \in keep : j <= i}) = k]])

\* C6: for a statement that names exactly one table as a bare identifier the
\* submitted statement is the supplied one with the table name qualified and
\* nothing else altered (whitespace and letter case aside).
C6_SingleTablePreserved ==
  (result.op = "query_bigquery" /\ result.sent
     /\ query \in SingleTableStatements)
    => Squeeze(result.submitted) = Squeeze(WithTableQualified(query))

(***************************************************************************)
(* RedditSpec: the four Reddit operations over what the API serves.        *)
(***************************************************************************)
RedditInit ==
  /\ BqIdle
  /\ env = [pathExists |-> FALSE, fileLoads |-> FALSE, envVarSet |-> TRUE,
            defaultOk |-> TRUE]
  /\ query = <<>>
  /\ texts \in Feeds
  /\ reddit = NoRedditResult
  /\ ConcIdle

RedditNext ==
  \/ GetSubredditPosts
  \/ GetPostDetails
  \/ SearchReddit
  \/ GetSubredditInfo

RedditSpec == RedditInit /\ [][RedditNext]_vars

\* C4: an invalid sort_type yields an error result and no call on the Reddit
\* client at all.
C4_InvalidSortNoClientCall ==
  (reddit.op = "get_subreddit_posts" /\ reddit.sort_type \notin ValidSortTypes)
    => reddit.isError /\ reddit.calls = <<>>

\* C9 as stated: every truncated field is at most limit+3 long and ends with
\* the ellipsis exactly when its source was longer than the limit.
C9_EllipsisIffTruncated ==
  \A i \in 1..Len(reddit.fields) :
    LET f == reddit.fields[i]
    IN /\ Len(f.output) <= f.limit + 3
       /\ EndsWith(f.output, Ellipsis) <=> Len(f.source) > f.limit

\* C9 amended: every truncated field is at most limit+3 long and ends with
\* the ellipsis exactly when its source was longer than the limit or the
\* source, not longer than the limit, itself ends with the ellipsis.
C9_EllipsisIffTruncatedOrPresent ==
  \A i \in 1..Len(reddit.fields) :
    LET f == reddit.fields[i]
    IN /\ Len(f.output) <= f.limit + 3
       /\ EndsWith(f.output, Ellipsis)
            <=> (Len(f.source) > f.limit \/ EndsWith(f.source, Ellipsis))

\* C9 witness: a field cut at its limit, limit+3 long, whose source was
\* longer than the limit and did not end with the ellipsis
C9_Witness ==
  \E i \in 1..Len(reddit.fields) :
    LET f == reddit.fields[i]
    IN /\ Len(f.source) > f.limit
       /\ ~EndsWith(f.source, Ellipsis)
       /\ Len(f.output) = f.limit + 3
       /\ EndsWith(f.output, Ellipsis)

(***************************************************************************)
(* ConcSpec: get_bigquery_client entered by callers that run concurrently. *)
(* A caller may be preempted between the test of line 26, the construction *)
(* of a client, the assignment to the global and the read of the global by *)
(* the return statement.                                                   *)
(***************************************************************************)
Callers == 1..NumCallers

Inside(c) == pc[c] \in {"check", "auth", "store", "return"}

\* an operation calls get_bigquery_client (lines 94, 156, 198, 228)
Call(c) ==
  /\ pc[c] \in {"idle", "done", "raised"}
  /\ pc' = [pc EXCEPT ![c] = "check"]
  /\ seen' = [seen EXCEPT ![c] = None]
  /\ built' = [built EXCEPT ![c] = None]
  /\ got' = [got EXCEPT ![c] = None]
  /\ overlapped' = (overlapped \/ \E d \in Callers : d # c /\ Inside(d))
  /\ UNCHANGED <<bqVars, redditVars, nWrites>>

\* line 26: the test of the global
CheckHandle(c) ==
  /\ pc[c] = "check"
  /\ seen' = [seen EXCEPT ![c] = _bq_client]
  /\ pc' = [pc EXCEPT ![c] = IF HandleIsSet(_bq_client) THEN "return"
                             ELSE "auth"]
  /\ UNCHANGED <<bqVars, redditVars, built, got, nWrites, overlapped>>

\* lines 29-54: the selected method builds a client or raises
Authenticate(c) ==
  /\ pc[c] = "auth"
  /\ LET m == SelectStrategy(env)
     IN IF StrategySucceeds(m, env)
        THEN /\ built' = [built EXCEPT ![c] = nConstructed + 1]
             /\ nConstructed' = nConstructed + 1
             /\ pc' = [pc EXCEPT ![c] = "store"]
        ELSE /\ pc' = [pc EXCEPT ![c] = "raised"]
             /\ UNCHANGED <<built, nConstructed>>
  /\ UNCHANGED <<_bq_client, env, query, result, redditVars, seen, got,
                 nWrites, overlapped>>

\* lines 36, 41, 46: the assignment to the global
Store(c) ==
  /\ pc[c] = "store"
  /\ _bq_client' = built[c]
  /\ nWrites' = nWrites + 1
  /\ pc' = [pc EXCEPT ![c] = "return"]
  /\ UNCHANGED <<env, query, result, nConstructed, redditVars, seen, built,
                 got, overlapped>>

\* lines 27, 37, 42, 47: return _bq_client reads the global again
Return(c) ==
  /\ pc[c] = "return"
  /\ got' = [got EXCEPT ![c] = _bq_client]
  /\ pc' = [pc EXCEPT ![c] = "done"]
  /\ UNCHANGED <<bqVars, redditVars, seen, built, nWrites, overlapped>>

ConcInit ==
  /\ BqIdle
  /\ env \in Envs
  /\ query = <<>>
  /\ RedditIdle
  /\ ConcIdle

ConcNext ==
  \E c \in Callers :
    \/ Call(c)
    \/ CheckHandle(c)
    \/ Authenticate(c)
    \/ Store(c)
    \/ Return(c)

ConcSpec == ConcInit /\ [][ConcNext]_vars

\* C10: when no two calls overlap the handle is written at most once; there
\* is no guard, so every client that is constructed is also assigned to the
\* handle, and overlapping callers that both saw the handle unset write it
\* twice.
C10_WrittenOnceOnlyIfSequential ==
  /\ ~overlapped => nWrites <= 1
  /\ nConstructed = nWrites + Cardinality({c \in Callers : pc[c] = "store"})

\* C10 witness: two callers both saw the handle unset, both constructed a
\* client, the handle was written twice and they returned different clients
C10_Witness ==
  \E c \in Callers, d \in Callers :
    /\ c # d
    /\ pc[c] = "done" /\ pc[d] = "done"
    /\ seen[c] = None /\ seen[d] = None
    /\ built[c] # None /\ built[d] # None
    /\ nWrites = 2
    /\ got[c] # got[d]

====
